---- MODULE Spec2Model ----
(***************************************************************************)
(* makeLSSTobs.py: command-line driver that reads an orbit file and an     *)
(* opsim pointing database and hands both to an external observation       *)
(* generator (LinearObs or DirectObs).                                      *)
(*                                                                         *)
(* Strings whose content the script inspects (file names, obsType) are     *)
(* sequences of tokens; the external library calls are recorded, in order, *)
(* in `calls`, and each of them may raise.                                  *)
(***************************************************************************)
EXTENDS Integers, Sequences, FiniteSets, TLC

VARIABLES
    pc,          \* position of the running call
    caller,      \* "none", "main" (the script), "readOpsim" or "runObs" (library use)
    argv,        \* the command line as parsed by argparse
    args,        \* the Namespace setupArgs returns
    exc,         \* the exception that ended the run, or NoExc
    log,         \* messages sent to logging
    calls,       \* function entries/returns and external calls, in order
    orbits,      \* sed_filename of each orbit read, or None
    opsdb,       \* the OpsimDatabase object of readOpsim
    frame,       \* readOpsim's parameters and locals
    simdata,     \* filter of each visit fetched, or None
    obs,         \* the observation generator object of runObs
    todo         \* sednames still to be passed to calcColors

vars == <<pc, caller, argv, args, exc, log, calls, orbits, opsdb, frame, simdata, obs, todo>>

\* Bounds of the model.
MaxOrbits == 2
MaxVisits == 2

None == <<"None">>
NoExc == [type |-> "none", at |-> "none", what |-> "none"]

----------------------------------------------------------------------------
(* String helpers (Python str / os.path methods on token sequences).       *)

RECURSIVE LastIndex(_, _)
\* s.rfind(t) + 1: position of the last token t in s, 0 when there is none.
LastIndex(s, t) ==
    IF Len(s) = 0 THEN 0
    ELSE IF s[Len(s)] = t THEN Len(s)
    ELSE LastIndex(SubSeq(s, 1, Len(s) - 1), t)

\* os.path.split(p)[-1]
Basename(p) == SubSeq(p, LastIndex(p, "/") + 1, Len(p))

RECURSIVE Split(_, _)
\* s.split(sep), a sequence of strings
Split(s, sep) ==
    LET i == LastIndex(s, sep) IN
    IF i = 0 THEN <<s>>
    ELSE Append(Split(SubSeq(s, 1, i - 1), sep), SubSeq(s, i + 1, Len(s)))

RECURSIVE Join(_, _)
\* sep.join(parts)
Join(parts, sep) ==
    IF Len(parts) = 0 THEN <<>>
    ELSE IF Len(parts) = 1 THEN parts[1]
    ELSE Join(SubSeq(parts, 1, Len(parts) - 1), sep) \o <<sep>> \o parts[Len(parts)]

RECURSIVE Replace(_, _)
\* s.replace(old, '')
Replace(s, old) ==
    IF Len(s) < Len(old) THEN s
    ELSE IF SubSeq(s, 1, Len(old)) = old
         THEN Replace(SubSeq(s, Len(old) + 1, Len(s)), old)
         ELSE <<s[1]>> \o Replace(Tail(s), old)

\* os.path.join(a, b)
PathJoin(a, b) ==
    IF Len(b) > 0 /\ b[1] = "/" THEN b
    ELSE IF Len(a) = 0 \/ a[Len(a)] = "/" THEN a \o b
    ELSE a \o <<"/">> \o b

UpperChars == <<"L", "I", "N", "E", "A", "R", "D", "C", "T">>
LowerChars == <<"l", "i", "n", "e", "a", "r", "d", "c", "t">>

LowerChar(c) ==
    IF \E i \in 1..Len(UpperChars) : UpperChars[i] = c
    THEN LowerChars[CHOOSE i \in 1..Len(UpperChars) : UpperChars[i] = c]
    ELSE c

\* s.lower()
Lower(s) == [i \in 1..Len(s) |-> LowerChar(s[i])]

linear == <<"l", "i", "n", "e", "a", "r">>
direct == <<"d", "i", "r", "e", "c", "t">>

----------------------------------------------------------------------------
(* Command lines.                                                          *)

OpsimDbNames == { <<"kraken", ".", "db">>,
                  <<"dir", "/", "kraken", "_", "sqlite", ".", "db">> }
OrbitFileNames == { <<"pha", ".", "des">>,
                    <<"dir", "/", "pha", ".", "s3m", ".", "des">> }
ObsFileNames == { <<"my", ".", "txt">> }
OutDirs == { <<".">> }
ObsTypes == { linear, direct,
              <<"L", "i", "n", "e", "a", "r">>, <<"D", "i", "r", "e", "c", "t">>,
              <<"D", "I", "R", "E", "C", "T">>, <<"n", "b", "o", "d", "y">> }
Footprints == { "circle", "camera" }

\* parser.parse_args(): omitted options take their defaults
Argvs == [ opsimDb : OpsimDbNames \cup {None},
           orbitFile : OrbitFileNames \cup {None},
           outDir : OutDirs,
           obsFile : ObsFileNames \cup {None},
           obsType : ObsTypes,
           footprint : Footprints ]

NoArgs == [ opsimDb |-> None, orbitFile |-> None, outDir |-> None, obsFile |-> None,
            obsType |-> None, footprint |-> "none", orbitbase |-> None, opsimRun |-> None ]
NoArgv == [ opsimDb |-> None, orbitFile |-> None, outDir |-> None, obsFile |-> None,
            obsType |-> None, footprint |-> "none" ]

\* args.orbitbase
OrbitBase(orbitFile) ==
    LET parts == Split(Basename(orbitFile), ".")
    IN  Join(SubSeq(parts, 1, Len(parts) - 1), ".")

\* args.opsimRun
OpsimRun(opsimDb) ==
    Replace(Replace(Basename(opsimDb), <<"_", "sqlite", ".", "db">>), <<".", "db">>)

\* '%s__%s_obs.txt' % (opsimRun, orbitbase)
DefaultObsName(opsimRun, orbitbase) ==
    opsimRun \o <<"_", "_">> \o orbitbase \o <<"_", "obs", ".", "txt">>

\* args.obsFile as setupArgs leaves it
ObsFile(a) ==
    IF a.obsFile = None
    THEN PathJoin(a.outDir, DefaultObsName(OpsimRun(a.opsimDb), OrbitBase(a.orbitFile)))
    ELSE PathJoin(a.outDir, a.obsFile)

\* SetupArgsError without the check of args.orbitFile.
SetupArgsError_NoOrbitCheck(a) ==
    IF a.opsimDb = None THEN "Must specify an opsim database output file."
    ELSE IF a.obsType \notin {linear, direct}
         THEN "Must choose linear or direct observation generation method (obsType)."
    ELSE "none"

\* The check that makes setupArgs raise, "none" when it returns.
SetupArgsError(a) ==
    IF a.opsimDb = None THEN "Must specify an opsim database output file."
    ELSE IF a.orbitFile = None THEN "Must specify an orbit file."
    ELSE IF a.obsType \notin {linear, direct}
         THEN "Must choose linear or direct observation generation method (obsType)."
    ELSE "none"

\* The Namespace setupArgs returns.
SetupArgsResult(a) ==
    [ opsimDb |-> a.opsimDb, orbitFile |-> a.orbitFile, outDir |-> a.outDir,
      obsFile |-> ObsFile(a), obsType |-> a.obsType, footprint |-> a.footprint,
      orbitbase |-> OrbitBase(a.orbitFile), opsimRun |-> OpsimRun(a.opsimDb) ]

----------------------------------------------------------------------------
(* The opsim database, as readOpsim sees it.                               *)

\* getColMap(opsdb): the column names of the two opsim schema versions.  The older
\* map has no 'rotSkyPos' key.
ColMapV4 == [ mjd |-> "observationStartMJD", night |-> "night", ra |-> "fieldRA",
              dec |-> "fieldDec", filter |-> "filter", exptime |-> "visitExposureTime",
              seeingGeom |-> "seeingFwhmGeom", fiveSigmaDepth |-> "fiveSigmaDepth",
              seeingEff |-> "seeingFwhmEff", raDecDeg |-> "True",
              rotSkyPos |-> "rotSkyPos" ]
ColMapV3 == [ mjd |-> "expMJD", night |-> "night", ra |-> "fieldRA",
              dec |-> "fieldDec", filter |-> "filter", exptime |-> "visitExpTime",
              seeingGeom |-> "FWHMgeom", fiveSigmaDepth |-> "fiveSigmaDepth",
              seeingEff |-> "FWHMeff", raDecDeg |-> "False" ]
ColMaps == { ColMapV4, ColMapV3 }

\* if 'rotSkyPos' not in colmap: colmap['rotSkyPos'] = 'rotSkyPos'
WithRotSkyPos(colmap) ==
    IF "rotSkyPos" \notin DOMAIN colmap
    THEN colmap @@ ("rotSkyPos" :> "rotSkyPos")
    ELSE colmap

Range(s) == { s[i] : i \in 1..Len(s) }

\* MinColsList with rotSkyPos required whatever the footprint.
MinColsList_AlwaysRot(colmap, footprint, dbcols) ==
    LET base == << colmap.mjd, colmap.night, colmap.ra, colmap.dec, colmap.filter,
                   colmap.exptime, colmap.seeingGeom, colmap.fiveSigmaDepth,
                   colmap.rotSkyPos >>
    IN  IF dbcols # None THEN base \o dbcols ELSE base

\* min_cols before list(set(min_cols)); colmap already holds 'rotSkyPos'
MinColsList(colmap, footprint, dbcols) ==
    LET base == << colmap.mjd, colmap.night, colmap.ra, colmap.dec, colmap.filter,
                   colmap.exptime, colmap.seeingGeom, colmap.fiveSigmaDepth >>
        rot  == IF footprint = "camera" THEN Append(base, colmap.rotSkyPos) ELSE base
    IN  IF dbcols # None THEN rot \o dbcols ELSE rot

\* min_cols = list(set(min_cols))
MinCols(colmap, footprint, dbcols) == Range(MinColsList(colmap, footprint, dbcols))

\* more_cols = [colmap['rotSkyPos'], colmap['seeingEff'], 'solarElong']
MoreCols(colmap) == << colmap.rotSkyPos, colmap.seeingEff, "solarElong" >>

RECURSIVE ListRemove(_, _)
\* list.remove(x): drops the first occurrence of x
ListRemove(s, x) ==
    IF Len(s) = 0 THEN s
    ELSE IF s[1] = x THEN Tail(s)
    ELSE <<s[1]>> \o ListRemove(Tail(s), x)

RECURSIVE RemoveAll(_, _)
\* for col in failed_cols: more_cols.remove(col)
RemoveAll(more, failed) ==
    IF Len(failed) = 0 THEN more
    ELSE RemoveAll(ListRemove(more, failed[1]), Tail(failed))

\* ColsToFetch with the failed columns left in more_cols.
ColsToFetch_KeepFailed(min_cols, more_cols, failed_cols) ==
    min_cols \cup Range(more_cols)

\* cols = list(set(min_cols + more_cols)) after the failed columns were removed
ColsToFetch(min_cols, more_cols, failed_cols) ==
    min_cols \cup Range(RemoveAll(more_cols, failed_cols))

\* The tables a database file may hold: the columns every opsim run has, any of the
\* optional ones, and one file that lacks a required column.
CoreCols(colmap) ==
    { colmap.mjd, colmap.night, colmap.ra, colmap.dec, colmap.filter,
      colmap.exptime, colmap.seeingGeom, colmap.fiveSigmaDepth, "note" }
OptionalCols(colmap) == { "rotSkyPos", colmap.seeingEff, "solarElong" }
Databases(colmap) ==
    { CoreCols(colmap) \cup opt : opt \in SUBSET OptionalCols(colmap) }
    \cup { (CoreCols(colmap) \ {colmap.night}) \cup OptionalCols(colmap) }

\* What a query for colnames can do: ValueError when a column is not in the table;
\* otherwise it answers, or the database engine fails.
QueryOutcomes(columns, colnames) ==
    IF colnames \subseteq columns THEN { "ok", "OtherError" } ELSE { "ValueError" }

NoDb == [ state |-> "none", columns |-> {}, queries |-> <<>> ]
NoFrame == [ footprint |-> "none", dbcols |-> None, colmap |-> ColMapV4,
             min_cols |-> {}, more_cols |-> <<>>, failed_cols |-> <<>>,
             i |-> 0, cols |-> {} ]
DbcolsChoices == { None, <<"rotSkyPos">>, <<"note", "solarElong">> }

----------------------------------------------------------------------------
(* runObs.                                                                 *)

\* The values in sorted order, as np.unique compares them.
Ordering == << "C.dat", "S.dat", "g", "r" >>
SedNames == { "C.dat", "S.dat" }
FilterNames == { "g", "r" }

\* Unique that keeps the repeated values.
Unique_KeepRepeats(values) == values

\* np.unique(values): the distinct values, sorted
Unique(values) == SelectSeq(Ordering, LAMBDA x : x \in Range(values))

SeqsUpTo(S, n) == UNION { [1..k -> S] : k \in 0..n }

\* Dispatch comparing args.obsType as given, not lower-cased.
Dispatch_CaseSensitive(obsType) ==
    IF obsType = linear THEN "LinearObs"
    ELSE IF obsType = direct THEN "DirectObs"
    ELSE "ValueError"

\* The class runObs constructs for args.obsType, "ValueError" when it raises.
Dispatch(obsType) ==
    IF Lower(obsType) = linear THEN "LinearObs"
    ELSE IF Lower(obsType) = direct THEN "DirectObs"
    ELSE "ValueError"

\* Keyword arguments of the LinearObs(...) call.
LinearKwargs(a, colmap) ==
    [ footprint |-> a.footprint, rFov |-> "args.rFov", xTol |-> "args.xTol",
      yTol |-> "args.yTol", ephMode |-> "args.ephMode", obsCode |-> "args.obsCode",
      ephFile |-> "None", ephType |-> "args.ephType", obsTimeCol |-> colmap.mjd,
      obsTimeScale |-> "TAI", seeingCol |-> colmap.seeingGeom,
      visitExpTimeCol |-> colmap.exptime, obsRA |-> colmap.ra, obsDec |-> colmap.dec,
      obsRotSkyPos |-> colmap.rotSkyPos, obsDegrees |-> colmap.raDecDeg,
      outfileName |-> a.obsFile, tstep |-> "args.tStep",
      obsMetadata |-> "args.obsMetadata" ]

\* Keyword arguments of the DirectObs(...) call.
DirectKwargs(a, colmap) ==
    [ footprint |-> a.footprint, rFov |-> "args.rFov", xTol |-> "args.xTol",
      yTol |-> "args.yTol", ephMode |-> "args.ephMode",
      prelimEphMode |-> "args.prelimEphMode", obsCode |-> "args.obsCode",
      ephFile |-> "None", ephType |-> "args.ephType", obsTimeCol |-> colmap.mjd,
      obsTimeScale |-> "TAI", seeingCol |-> colmap.seeingGeom,
      visitExpTimeCol |-> colmap.exptime, obsRA |-> colmap.ra, obsDec |-> colmap.dec,
      obsRotSkyPos |-> colmap.rotSkyPos, obsDegrees |-> colmap.raDecDeg,
      outfileName |-> a.obsFile, tstep |-> "args.tStep", roughTol |-> "args.roughTol",
      obsMetadata |-> "args.obsMetadata" ]

NoObs == [ cls |-> "none", kwargs |-> [ none |-> "none" ], filterlist |-> None,
           colors |-> <<>> ]

----------------------------------------------------------------------------
(* The script and its functions, step by step.                             *)

\* MainStepAfter with the two reads exchanged.
MainStepAfter_PointingFirst(step) ==
    CASE step = "setupArgs"   -> "mainLogging"
      [] step = "mainLogging" -> "readOpsim"
      [] step = "readOpsim"   -> "readOrbits"
      [] step = "readOrbits"  -> "runObs"
      [] step = "runObs"      -> "complete"

\* The order of the statements of __main__.
MainStepAfter(step) ==
    CASE step = "setupArgs"   -> "mainLogging"
      [] step = "mainLogging" -> "readOrbits"
      [] step = "readOrbits"  -> "readOpsim"
      [] step = "readOpsim"   -> "runObs"
      [] step = "runObs"      -> "complete"

\* Where a function returns to.
ReturnTo(fn) == IF caller = "main" THEN MainStepAfter(fn) ELSE "done"

Raise(type, at, what) ==
    /\ pc' = "raised"
    /\ exc' = [ type |-> type, at |-> at, what |-> what ]

\* Close that leaves the database open.
Close_Forgotten(db) == db

\* opsdb.close()
Close(db) == [ db EXCEPT !.state = "closed" ]

Init ==
    /\ pc = "start"
    /\ caller = "none"
    /\ argv = NoArgv
    /\ args = NoArgs
    /\ exc = NoExc
    /\ log = <<>>
    /\ calls = <<>>
    /\ orbits = None
    /\ opsdb = NoDb
    /\ frame = NoFrame
    /\ simdata = None
    /\ obs = NoObs
    /\ todo = <<>>

\* args = setupArgs(), the first statement of the script
setupArgs ==
    /\ pc = "start"
    /\ \E a \in Argvs :
        /\ argv' = a
        /\ IF SetupArgsError(a) # "none"
           THEN /\ Raise("ValueError", "setupArgs", SetupArgsError(a))
                /\ args' = args
           ELSE /\ args' = SetupArgsResult(a)
                /\ pc' = MainStepAfter("setupArgs")
                /\ exc' = exc
    /\ caller' = "main"
    /\ calls' = Append(calls, "setupArgs")
    /\ UNCHANGED <<log, orbits, opsdb, frame, simdata, obs, todo>>

\* logging.basicConfig and the two version lines
mainLogging ==
    /\ pc = "mainLogging"
    /\ log' = log \o << "# sims_movingObjects version", "# sims_maf version" >>
    /\ pc' = MainStepAfter("mainLogging")
    /\ UNCHANGED <<caller, argv, args, exc, calls, orbits, opsdb, frame, simdata, obs, todo>>

\* orbits = readOrbits(args.orbitFile)
readOrbits ==
    /\ pc = "readOrbits"
    /\ \E isfile \in BOOLEAN, parsed \in BOOLEAN, seds \in SeqsUpTo(SedNames, MaxOrbits) :
        LET entered == calls \o << "readOrbits", "Orbits", "Orbits.readOrbits" >>
            logged  == IF isfile THEN log ELSE Append(log, "Could not find orbit file")
        IN  IF isfile /\ parsed
            THEN /\ orbits' = seds
                 /\ log' = Append(logged, "Read orbit information")
                 /\ calls' = Append(entered, "readOrbits.return")
                 /\ pc' = ReturnTo("readOrbits")
                 /\ exc' = exc
            ELSE /\ Raise("OtherError", "readOrbits", "Orbits.readOrbits")
                 /\ log' = logged
                 /\ calls' = entered
                 /\ orbits' = orbits
    /\ UNCHANGED <<caller, argv, args, opsdb, frame, simdata, obs, todo>>

\* readOpsim called as a library function, with its own footprint and dbcols
callReadOpsim ==
    /\ pc = "start"
    /\ \E f \in Footprints, d \in DbcolsChoices :
        frame' = [ NoFrame EXCEPT !.footprint = f, !.dbcols = d ]
    /\ caller' = "readOpsim"
    /\ pc' = "readOpsim"
    /\ UNCHANGED <<argv, args, exc, log, calls, orbits, opsdb, simdata, obs, todo>>

\* readOpsim, up to min_cols = list(set(min_cols))
readOpsimOpen ==
    /\ pc = "readOpsim"
    /\ LET footprint == IF caller = "main" THEN args.footprint ELSE frame.footprint
           dbcols    == IF caller = "main" THEN None ELSE frame.dbcols
       IN  \E opened \in BOOLEAN, cm \in ColMaps :
           \E columns \in Databases(cm) :
             IF opened
             THEN /\ opsdb' = [ state |-> "open", columns |-> columns, queries |-> <<>> ]
                  /\ frame' = [ frame EXCEPT
                                  !.footprint = footprint,
                                  !.dbcols = dbcols,
                                  !.colmap = WithRotSkyPos(cm),
                                  !.min_cols = MinCols(WithRotSkyPos(cm), footprint, dbcols) ]
                  /\ calls' = calls \o << "readOpsim", "OpsimDatabase", "getColMap" >>
                  /\ pc' = "queryMinCols"
                  /\ exc' = exc
             ELSE /\ Raise("OtherError", "readOpsim", "OpsimDatabase")
                  /\ calls' = calls \o << "readOpsim", "OpsimDatabase" >>
                  /\ UNCHANGED <<opsdb, frame>>
    /\ UNCHANGED <<caller, argv, args, log, orbits, simdata, obs, todo>>

\* the query that checks the minimum required columns
queryMinCols ==
    /\ pc = "queryMinCols"
    /\ \E out \in QueryOutcomes(opsdb.columns, frame.min_cols) :
        /\ opsdb' = [ opsdb EXCEPT !.queries =
                        Append(@, [ colnames |-> frame.min_cols, outcome |-> out ]) ]
        /\ IF out = "ok"
           THEN /\ frame' = [ frame EXCEPT !.more_cols = MoreCols(frame.colmap),
                                            !.failed_cols = <<>>, !.i = 1 ]
                /\ pc' = "probe"
                /\ exc' = exc
           ELSE /\ Raise(out, "readOpsim", "query_columns(min_cols)")
                /\ frame' = frame
    /\ calls' = Append(calls, "query_columns")
    /\ UNCHANGED <<caller, argv, args, log, orbits, simdata, obs, todo>>

\* one pass of: for col in more_cols: try query_columns([col]) except ValueError
probeCol ==
    /\ pc = "probe"
    /\ frame.i <= Len(frame.more_cols)
    /\ LET col == frame.more_cols[frame.i] IN
       \E out \in QueryOutcomes(opsdb.columns, {col}) :
        /\ opsdb' = [ opsdb EXCEPT !.queries =
                        Append(@, [ colnames |-> {col}, outcome |-> out ]) ]
        /\ IF out = "OtherError"
           THEN /\ Raise(out, "readOpsim", "query_columns(col)")
                /\ frame' = frame
           ELSE /\ frame' = [ frame EXCEPT
                                !.failed_cols = IF out = "ValueError" THEN Append(@, col) ELSE @,
                                !.i = @ + 1 ]
                /\ pc' = IF frame.i + 1 > Len(frame.more_cols) THEN "fetchMetricData" ELSE "probe"
                /\ exc' = exc
    /\ calls' = Append(calls, "query_columns")
    /\ UNCHANGED <<caller, argv, args, log, orbits, simdata, obs, todo>>

\* readOpsim from "for col in failed_cols" to its return
fetchAll ==
    /\ pc = "fetchMetricData"
    /\ LET cols == ColsToFetch(frame.min_cols, frame.more_cols, frame.failed_cols) IN
       \E out \in QueryOutcomes(opsdb.columns, cols), visits \in SeqsUpTo(FilterNames, MaxVisits) :
        /\ frame' = [ frame EXCEPT !.more_cols = RemoveAll(@, frame.failed_cols),
                                    !.cols = cols ]
        /\ IF out = "ok"
           THEN /\ simdata' = visits
                /\ opsdb' = Close(opsdb)
                /\ calls' = calls \o << "fetchMetricData", "opsdb.close", "readOpsim.return" >>
                /\ log' = log \o << "Querying for columns", "Queried data from opsim" >>
                /\ pc' = ReturnTo("readOpsim")
                /\ exc' = exc
           ELSE /\ Raise(out, "readOpsim", "fetchMetricData")
                /\ calls' = Append(calls, "fetchMetricData")
                /\ log' = Append(log, "Querying for columns")
                /\ UNCHANGED <<simdata, opsdb>>
    /\ UNCHANGED <<caller, argv, args, orbits, obs, todo>>

\* runObs called as a library function: any obsType may come in
callRunObs ==
    /\ pc = "start"
    /\ \E t \in ObsTypes, f \in Footprints, cm \in ColMaps :
        /\ args' = [ NoArgs EXCEPT !.obsType = t, !.footprint = f,
                                   !.obsFile = << "my", ".", "txt" >> ]
        /\ frame' = [ NoFrame EXCEPT !.colmap = WithRotSkyPos(cm) ]
    /\ \E seds \in SeqsUpTo(SedNames, MaxOrbits) : orbits' = seds
    /\ \E visits \in SeqsUpTo(FilterNames, MaxVisits) : simdata' = visits
    /\ caller' = "runObs"
    /\ pc' = "runObs"
    /\ UNCHANGED <<argv, exc, log, calls, opsdb, obs, todo>>

\* runObs: the if/elif/else on args.obsType and the constructor call
runObsDispatch ==
    /\ pc = "runObs"
    /\ LET cls == Dispatch(args.obsType) IN
       IF cls = "ValueError"
       THEN /\ Raise("ValueError", "runObs", "Must use 'Linear' or 'Direct' for the obsType.")
            /\ calls' = Append(calls, "runObs")
            /\ obs' = obs
       ELSE \E built \in BOOLEAN :
            /\ calls' = calls \o << "runObs", cls >>
            /\ IF built
               THEN /\ obs' = [ NoObs EXCEPT
                                  !.cls = cls,
                                  !.kwargs = IF cls = "LinearObs"
                                             THEN LinearKwargs(args, frame.colmap)
                                             ELSE DirectKwargs(args, frame.colmap) ]
                    /\ pc' = "readFilters"
                    /\ exc' = exc
               ELSE /\ Raise("OtherError", "runObs", cls)
                    /\ obs' = obs
    /\ UNCHANGED <<caller, argv, args, log, orbits, opsdb, frame, simdata, todo>>

\* filterlist = np.unique(simdata['filter']); _setupColors up to the loop
readFilters ==
    /\ pc = "readFilters"
    /\ obs' = [ obs EXCEPT !.filterlist = Unique(simdata) ]
    /\ calls' = Append(calls, "obs.readFilters")
    /\ \E done \in BOOLEAN :
        IF done
        THEN /\ todo' = Unique(orbits)
             /\ pc' = IF Unique(orbits) = <<>> THEN "run" ELSE "calcColors"
             /\ exc' = exc
        ELSE /\ Raise("OtherError", "runObs", "obs.readFilters")
             /\ todo' = todo
    /\ UNCHANGED <<caller, argv, args, log, orbits, opsdb, frame, simdata>>

\* one pass of: for sedname in sednames: obs.calcColors(sedname)
calcColors ==
    /\ pc = "calcColors"
    /\ todo # <<>>
    /\ obs' = [ obs EXCEPT !.colors = Append(@, Head(todo)) ]
    /\ calls' = Append(calls, "obs.calcColors")
    /\ \E done \in BOOLEAN :
        IF done
        THEN /\ todo' = Tail(todo)
             /\ pc' = IF Tail(todo) = <<>> THEN "run" ELSE "calcColors"
             /\ exc' = exc
        ELSE /\ Raise("OtherError", "runObs", "obs.calcColors")
             /\ todo' = todo
    /\ UNCHANGED <<caller, argv, args, log, orbits, opsdb, frame, simdata>>

\* obs.run(orbits, simdata) and the return of runObs
obsRun ==
    /\ pc = "run"
    /\ \E done \in BOOLEAN :
        IF done
        THEN /\ calls' = calls \o << "obs.run", "runObs.return" >>
             /\ pc' = ReturnTo("runObs")
             /\ exc' = exc
        ELSE /\ Raise("OtherError", "runObs", "obs.run")
             /\ calls' = Append(calls, "obs.run")
    /\ UNCHANGED <<caller, argv, args, log, orbits, opsdb, frame, simdata, obs, todo>>

\* logging.info('Completed successfully.')
mainComplete ==
    /\ pc = "complete"
    /\ log' = Append(log, "Completed successfully.")
    /\ pc' = "done"
    /\ UNCHANGED <<caller, argv, args, exc, calls, orbits, opsdb, frame, simdata, obs, todo>>

Next ==
    \/ setupArgs
    \/ mainLogging
    \/ readOrbits
    \/ callReadOpsim
    \/ readOpsimOpen
    \/ queryMinCols
    \/ probeCol
    \/ fetchAll
    \/ callRunObs
    \/ runObsDispatch
    \/ readFilters
    \/ calcColors
    \/ obsRun
    \/ mainComplete

Spec == Init /\ [][Next]_vars

----------------------------------------------------------------------------
(* Properties.                                                             *)

Positions(x) == { i \in 1..Len(calls) : calls[i] = x }
Count(x) == Cardinality(Positions(x))
Called(x) == Positions(x) # {}
\* every x in calls comes before every y in calls
AllBefore(x, y) ==
    LET px == Positions(x)
        py == Positions(y)
    IN  \A i \in px : \A j \in py : i < j
\* y was called, and x was called before
Preceded(x, y) == Called(y) => (Called(x) /\ AllBefore(x, y))
Constructed == Count("LinearObs") + Count("DirectObs")
GeneratorCalls == { "LinearObs", "DirectObs", "obs.readFilters", "obs.calcColors", "obs.run" }
ExternalCalls == GeneratorCalls \cup
    { "Orbits", "Orbits.readOrbits", "OpsimDatabase", "getColMap", "query_columns",
      "fetchMetricData", "opsdb.close", "readOrbits", "readOpsim", "runObs" }
DbcolsNamed == IF frame.dbcols = None THEN {} ELSE Range(frame.dbcols)

\* C1: setupArgs raises ValueError whenever --opsimDb or --orbitFile is missing, and
\* whenever setupArgs has raised, no database was opened, no orbit file read, no
\* generator constructed and nothing generated: no function of the script but
\* setupArgs was entered.
C1_MissingArgumentRaisesFirst ==
    /\ (caller = "main" /\ (argv.opsimDb = None \/ argv.orbitFile = None))
          => (pc = "raised" /\ exc.type = "ValueError" /\ exc.at = "setupArgs")
    /\ exc.at = "setupArgs"
          => /\ \A c \in ExternalCalls : ~Called(c)
             /\ opsdb.state = "none"
             /\ orbits = None /\ simdata = None /\ obs = NoObs
             /\ log = <<>>

C1_Witness ==
    /\ exc.at = "setupArgs"
    /\ argv.opsimDb # None
    /\ argv.orbitFile = None

\* C2 as stated: the script reads the pointing data before the orbits, i.e.
\* readOrbits is entered only after readOpsim has returned, and runObs only after
\* readOrbits has returned.
C2_PointingThenOrbits ==
    caller = "main" =>
        /\ Preceded("readOpsim.return", "readOrbits")
        /\ Preceded("readOrbits.return", "runObs")

\* C2 amended: the script reads the orbits, then the pointing data, then runs
\* generation; each step is entered once, only after the previous one has returned,
\* so generation never starts before both reads have completed.
C2_OrbitsThenPointingThenGeneration ==
    caller = "main" =>
        /\ Preceded("setupArgs", "readOrbits")
        /\ Preceded("readOrbits.return", "readOpsim")
        /\ Preceded("readOpsim.return", "runObs")
        /\ Preceded("readOrbits.return", "runObs")
        /\ \A f \in { "readOrbits", "readOpsim", "runObs" } : Count(f) <= 1

C2_Witness ==
    /\ caller = "main"
    /\ Called("runObs.return")

\* C3: runObs constructs exactly one of LinearObs (obsType lower-cased is 'linear')
\* and DirectObs (it is 'direct'); for any other obsType it raises ValueError and
\* calls no constructor, readFilters, calcColors or run.  prelimEphMode and roughTol
\* are keyword arguments of DirectObs only.
C3_DispatchOnLowercasedObsType ==
    Called("runObs") =>
        LET t == Lower(args.obsType) IN
        /\ t = linear => (Count("LinearObs") = 1 /\ Count("DirectObs") = 0)
        /\ t = direct => (Count("DirectObs") = 1 /\ Count("LinearObs") = 0)
        /\ t \notin { linear, direct }
              => /\ pc = "raised" /\ exc.type = "ValueError" /\ exc.at = "runObs"
                 /\ \A c \in GeneratorCalls : ~Called(c)
        /\ obs.cls = "LinearObs"
              => /\ t = linear
                 /\ { "prelimEphMode", "roughTol" } \cap DOMAIN obs.kwargs = {}
        /\ obs.cls = "DirectObs"
              => /\ t = direct
                 /\ { "prelimEphMode", "roughTol" } \subseteq DOMAIN obs.kwargs
                 /\ obs.kwargs.prelimEphMode = "args.prelimEphMode"
                 /\ obs.kwargs.roughTol = "args.roughTol"

C3_Witness ==
    /\ caller = "runObs"
    /\ args.obsType = << "L", "i", "n", "e", "a", "r" >>
    /\ obs.cls = "LinearObs"
    /\ Called("obs.run")

\* C4: when dbcols does not name rotSkyPos and the database lacks it: with footprint
\* 'camera' the required-column query raises ValueError and no other query and no
\* full fetch is issued; with any other footprint rotSkyPos is not required, no
\* ValueError leaves readOpsim unless another required column is missing, and when
\* readOpsim returns the fetched column set does not contain rotSkyPos.
C4_RotSkyPosRequiredIffCamera ==
    (Called("query_columns") /\ "rotSkyPos" \notin DbcolsNamed
                             /\ "rotSkyPos" \notin opsdb.columns) =>
        LET cm == frame.colmap
            others == { cm.mjd, cm.night, cm.ra, cm.dec, cm.filter, cm.exptime,
                        cm.seeingGeom, cm.fiveSigmaDepth } \cup DbcolsNamed
        IN  IF frame.footprint = "camera"
            THEN /\ pc = "raised"
                 /\ exc = [ type |-> "ValueError", at |-> "readOpsim",
                            what |-> "query_columns(min_cols)" ]
                 /\ Count("query_columns") = 1
                 /\ ~Called("fetchMetricData")
            ELSE /\ opsdb.queries[1].colnames = others
                 /\ (exc.type = "ValueError" => ~(others \subseteq opsdb.columns))
                 /\ (others \subseteq opsdb.columns /\ Len(opsdb.queries) > 1
                        /\ opsdb.queries[1].outcome = "ok")
                       => opsdb.queries[2] = [ colnames |-> {"rotSkyPos"},
                                               outcome |-> "ValueError" ]
                 /\ Called("readOpsim.return") => "rotSkyPos" \notin frame.cols

C4_Witness ==
    /\ frame.footprint = "circle"
    /\ "rotSkyPos" \notin opsdb.columns
    /\ "solarElong" \in opsdb.columns
    /\ Called("readOpsim.return")
    /\ "rotSkyPos" \notin frame.cols

\* C5: once the required-column query has succeeded, rotSkyPos, seeingEff and
\* solarElong are each probed in a query of their own; a probe raising ValueError
\* does not end readOpsim; the columns given to fetchMetricData are exactly the
\* required ones and the optional ones whose probe succeeded, and a column whose
\* probe failed is among them only if it is required.
C5_FetchRequiredAndProbedColumns ==
    LET q == opsdb.queries
        cm == frame.colmap
        optional == << cm.rotSkyPos, cm.seeingEff, "solarElong" >>
        probed(out) == { optional[i - 1] : i \in { j \in 2..Len(q) : q[j].outcome = out } }
    IN  /\ \A i \in 2..Len(q) :
              /\ q[1].outcome = "ok"
              /\ i <= 4
              /\ q[i].colnames = { optional[i - 1] }
        /\ exc.what = "query_columns(col)" => q[Len(q)].outcome = "OtherError"
        /\ (Len(q) \in 2..3 /\ q[Len(q)].outcome = "ValueError") => pc = "probe"
        /\ (Len(q) = 4 /\ q[4].outcome = "ValueError") => pc # "raised" \/ Called("fetchMetricData")
        /\ Called("fetchMetricData")
              => /\ Len(q) = 4
                 /\ frame.cols = q[1].colnames \cup probed("ok")
                 /\ \A c \in probed("ValueError") :
                        c \in frame.cols => c \in q[1].colnames

C5_Witness ==
    /\ Called("fetchMetricData")
    /\ frame.footprint = "camera"
    /\ \E i \in 2..Len(opsdb.queries) : opsdb.queries[i].outcome = "ValueError"
    /\ "solarElong" \in frame.cols
    /\ Called("readOpsim.return")

\* C6: without --obsFile, args.obsFile is outDir joined with opsimRun, one
\* underscore, the orbit file base name and '_obs.txt'; with --obsFile it is outDir
\* joined with that name.
C6_DefaultObsFileOneUnderscore ==
    (caller = "main" /\ pc \notin { "start", "raised" } ) =>
        IF argv.obsFile = None
        THEN args.obsFile = PathJoin(argv.outDir,
                 args.opsimRun \o <<"_">> \o args.orbitbase \o << "_", "obs", ".", "txt" >>)
        ELSE args.obsFile = PathJoin(argv.outDir, argv.obsFile)

\* C7: in a run of the script that completes, exactly one generator is constructed,
\* readFilters is called once with the distinct filters of the pointing data,
\* calcColors once for each distinct sed_filename of the orbits, and then run once;
\* in a run that fails, run is called at most once and 'Completed successfully.' is
\* not logged.
C7_GeneratorInvokedOnce ==
    caller = "main" =>
        /\ Count("obs.run") <= 1
        /\ pc = "done"
              => /\ Constructed = 1
                 /\ Count("obs.run") = 1
                 /\ Count("obs.readFilters") = 1
                 /\ Range(obs.filterlist) = Range(simdata)
                 /\ Len(obs.filterlist) = Cardinality(Range(simdata))
                 /\ Count("obs.calcColors") = Cardinality(Range(orbits))
                 /\ Range(obs.colors) = Range(orbits)
                 /\ Len(obs.colors) = Cardinality(Range(orbits))
                 /\ AllBefore("obs.readFilters", "obs.calcColors")
                 /\ AllBefore("obs.readFilters", "obs.run")
                 /\ AllBefore("obs.calcColors", "obs.run")
                 /\ log[Len(log)] = "Completed successfully."
        /\ pc = "raised"
              => \A i \in 1..Len(log) : log[i] # "Completed successfully."

C7_Witness ==
    /\ caller = "main"
    /\ pc = "done"
    /\ Len(orbits) = 2 /\ orbits[1] = orbits[2]
    /\ Len(simdata) = 2 /\ simdata[1] # simdata[2]

\* C8: setupArgs accepts an obsType exactly when runObs would dispatch on it.
C8_SameObsTypesAccepted ==
    (caller = "main" /\ argv.opsimDb # None /\ argv.orbitFile # None) =>
        ((Dispatch(argv.obsType) # "ValueError") <=> (exc.at # "setupArgs"))

\* C9 as stated: whenever readOpsim has exited after opening the database, by
\* returning or by a query raising, the database has been closed exactly once.
C9_ClosedOnEveryExit ==
    (opsdb.state # "none" /\ (Called("readOpsim.return") \/ exc.at = "readOpsim"))
        => (opsdb.state = "closed" /\ Count("opsdb.close") = 1)

\* C9 amended: the database is closed exactly once, after the full fetch and before
\* readOpsim returns, on the normal return only; when a query raises, readOpsim
\* exits with the database still open and close never called; no query is issued
\* after the close.
C9_ClosedOnNormalReturnOnly ==
    /\ Called("readOpsim.return")
          => /\ opsdb.state = "closed"
             /\ Count("opsdb.close") = 1
             /\ AllBefore("opsdb.close", "readOpsim.return")
    /\ exc.at = "readOpsim"
          => /\ Count("opsdb.close") = 0
             /\ opsdb.state = IF exc.what = "OpsimDatabase" THEN "none" ELSE "open"
    /\ AllBefore("query_columns", "opsdb.close")
    /\ AllBefore("fetchMetricData", "opsdb.close")
    /\ opsdb.state = "closed" <=> Called("opsdb.close")

C9_Witness ==
    /\ exc.at = "readOpsim"
    /\ exc.what = "fetchMetricData"
    /\ opsdb.state = "open"
    /\ Len(opsdb.queries) = 4

====
